---- MODULE Spec2Model ----
(***************************************************************************)
(* Node liveness tracking of tiny-kube: the NodeRegistry (a mutex-guarded  *)
(* map from node name to NodeState), the status values and the two-        *)
(* threshold sweep.  Every registry method takes the single mutex for its  *)
(* whole body, so each method is one atomic action of this model.          *)
(***************************************************************************)
EXTENDS Integers, Sequences, FiniteSets, TLC

(* ---- NodeStatus: src/unnamed/part_000 lines 6-12 ---- *)
RESERVED == "RESERVED"
READY == "READY"
NOT_READY == "NOT_READY"
SUSPECT == "SUSPECT"
UNKNOWN == "UNKNOWN"

NodeStatus == {RESERVED, READY, NOT_READY, SUSPECT, UNKNOWN}

(* ---- program constants ---- *)
\* default timeout_ms of NodeState::is_suspect and of sweep's suspect_timeout_ms
DEFAULT_SUSPECT_TIMEOUT_MS == 30000
\* default not_ready_timeout_ms of NodeState::is_not_ready and of sweep
DEFAULT_NOT_READY_TIMEOUT_MS == 10000
\* the suspect timeout the coordinator passes to sweep
HEARTBEAT_TIMEOUT_MS == 3000

(* ---- inputs of the model ---- *)
\* upsert calls in one run
MaxUpserts == 2

Names == {"node-a", "node-b"}
Peers == {"peer-1", "peer-2"}

\* instants (ms) used as now and as last_seen_ms: two origins one millisecond
\* apart and the neighbourhood of each default threshold
Times ==
    { 0, 0 + 1,
      DEFAULT_NOT_READY_TIMEOUT_MS - 1,
      DEFAULT_NOT_READY_TIMEOUT_MS,
      DEFAULT_NOT_READY_TIMEOUT_MS + 1,
      DEFAULT_SUSPECT_TIMEOUT_MS + 1 }

\* threshold pairs <<suspect_timeout_ms, not_ready_timeout_ms>> handed to sweep:
\* the defaults, the coordinator's call, and an inverted pair
Thresholds ==
    { <<DEFAULT_SUSPECT_TIMEOUT_MS, DEFAULT_NOT_READY_TIMEOUT_MS>>,
      <<HEARTBEAT_TIMEOUT_MS, DEFAULT_NOT_READY_TIMEOUT_MS>>,
      <<DEFAULT_NOT_READY_TIMEOUT_MS, DEFAULT_SUSPECT_TIMEOUT_MS>> }

\* the instants at which entries are created
RegistrationTimes == {0, 0 + 1}

\* NodeState: src/unnamed/part_000 lines 14-19
NodeState ==
    [name : Names, peer : Peers, last_seen_ms : Times, status : NodeStatus]

\* the NodeStates handed to upsert: any name, peer and status, created at a
\* registration instant
UpsertInputs ==
    {node \in NodeState : node.last_seen_ms \in RegistrationTimes}

VARIABLES
    nodes,      \* NodeRegistry::nodes_ : name -> NodeState
    prev,       \* nodes_ as it was before the last operation
    last,       \* the last operation and its arguments
    ret,        \* what the last operation returned
    live,       \* names upserted and not removed since
    upserts,    \* upsert calls made so far
    arg,        \* the NodeState handed to upsert, while nothing but snapshot ran since
    clock,      \* what now_ms() returns: the coordinator's system clock (ms)
    g_running,  \* std::atomic<bool> g_running of the process
    rpc,        \* the gRPC handler threads of the coordinator: position and locals
    mon,        \* the monitor thread of the coordinator: position and the now it read
    calls,      \* RPCs dispatched so far
    nodes2,     \* the registry of a second run that differs in client timestamps only
    mutex_,     \* NodeRegistry::mutex_ : 0 when free, else the thread holding it
    thr,        \* threads calling registry methods statement by statement
    agent       \* the agent process: its threads, its g_running, its stream

\* the state of the sequential registry run
regVars == <<nodes, prev, last, ret, live, upserts, arg>>

\* the state of the other runs of this module, which a registry run leaves alone
coordVars == <<clock, g_running, rpc, mon, calls, nodes2>>

concVars == <<mutex_, thr>>

agentVars == <<agent>>

elsewhere == <<coordVars, concVars, agentVars>>

vars == <<regVars, elsewhere>>

\* what a coordinator step leaves alone in the registry run's bookkeeping
regVarsButNodes == <<prev, last, ret, live, upserts, arg, concVars, agentVars>>

\* arg when no upsert has just run
NoArg == [name |-> "", peer |-> "", last_seen_ms |-> 0, status |-> UNKNOWN]

NoRet == "void"

Call(op, name, now, st, nt) ==
    [op |-> op, name |-> name, now |-> now,
     suspect_timeout_ms |-> st, not_ready_timeout_ms |-> nt]

(* ---- NodeState predicates ---- *)
is_healthy(state) == state.status = READY

is_suspect(state, current_time_ms, timeout_ms) ==
    (current_time_ms - state.last_seen_ms) > timeout_ms

\* variant: the not-ready window closed at the threshold itself (>= for >)
is_not_ready_inclusive(state, current_time_ms, not_ready_timeout_ms) ==
    (current_time_ms - state.last_seen_ms) >= not_ready_timeout_ms

is_not_ready(state, current_time_ms, not_ready_timeout_ms) ==
    (current_time_ms - state.last_seen_ms) > not_ready_timeout_ms

(* ---- NodeRegistry methods as functions of the map ---- *)
\* variant: upsert that only overwrites, never inserts
upsert_existing_only(m, node) ==
    [n \in DOMAIN m |-> IF n = node.name THEN node ELSE m[n]]

\* variant: an overwrite that keeps the peer recorded at the first registration
upsert_keep_peer(m, node) ==
    [n \in DOMAIN m \cup {node.name} |->
        IF n = node.name
        THEN IF n \in DOMAIN m THEN [node EXCEPT !.peer = m[n].peer] ELSE node
        ELSE m[n]]

upsert(m, node) ==
    [n \in DOMAIN m \cup {node.name} |-> IF n = node.name THEN node ELSE m[n]]

\* what nodes_[key] creates for a missing key: a value-initialised NodeState
DefaultNodeState ==
    [name |-> "", peer |-> "", last_seen_ms |-> 0, status |-> NOT_READY]

\* variant: touch without the contains() test, so operator[] inserts
touch_unchecked(m, node_name, now_ms) ==
    [n \in DOMAIN m \cup {node_name} |->
        IF n = node_name
        THEN [name |-> IF n \in DOMAIN m THEN m[n].name ELSE DefaultNodeState.name,
              peer |-> IF n \in DOMAIN m THEN m[n].peer ELSE DefaultNodeState.peer,
              last_seen_ms |-> now_ms,
              status |-> READY]
        ELSE m[n]]

\* variant: touch that refreshes last_seen_ms and forgets the status
touch_keep_status(m, node_name, now_ms) ==
    IF node_name \in DOMAIN m
    THEN [m EXCEPT ![node_name].last_seen_ms = now_ms]
    ELSE m

touch(m, node_name, now_ms) ==
    IF node_name \in DOMAIN m
    THEN [m EXCEPT ![node_name].last_seen_ms = now_ms,
                   ![node_name].status = READY]
    ELSE m

\* variant: the suspect test made before the not-ready test
sweep_entry_suspect_first(state, now_ms, suspect_timeout_ms, not_ready_timeout_ms) ==
    IF is_suspect(state, now_ms, suspect_timeout_ms)
    THEN [state EXCEPT !.status = SUSPECT]
    ELSE IF is_not_ready(state, now_ms, not_ready_timeout_ms)
         THEN [state EXCEPT !.status = NOT_READY]
         ELSE state

\* variant: a final else branch that marks the fresh entry READY
sweep_entry_promoting(state, now_ms, suspect_timeout_ms, not_ready_timeout_ms) ==
    IF is_not_ready(state, now_ms, not_ready_timeout_ms)
    THEN [state EXCEPT !.status = NOT_READY]
    ELSE IF is_suspect(state, now_ms, suspect_timeout_ms)
         THEN [state EXCEPT !.status = SUSPECT]
         ELSE [state EXCEPT !.status = READY]

\* variant: only entries that are READY are demoted
sweep_entry_ready_only(state, now_ms, suspect_timeout_ms, not_ready_timeout_ms) ==
    IF state.status # READY
    THEN state
    ELSE IF is_not_ready(state, now_ms, not_ready_timeout_ms)
         THEN [state EXCEPT !.status = NOT_READY]
         ELSE IF is_suspect(state, now_ms, suspect_timeout_ms)
              THEN [state EXCEPT !.status = SUSPECT]
              ELSE state

sweep_entry(state, now_ms, suspect_timeout_ms, not_ready_timeout_ms) ==
    IF is_not_ready(state, now_ms, not_ready_timeout_ms)
    THEN [state EXCEPT !.status = NOT_READY]
    ELSE IF is_suspect(state, now_ms, suspect_timeout_ms)
         THEN [state EXCEPT !.status = SUSPECT]
         ELSE state

\* variant: a sweep that evicts the entries it finds past a threshold
sweep_evicting(m, now_ms, suspect_timeout_ms, not_ready_timeout_ms) ==
    [n \in {k \in DOMAIN m :
                ~is_not_ready(m[k], now_ms, not_ready_timeout_ms)
                /\ ~is_suspect(m[k], now_ms, suspect_timeout_ms)} |-> m[n]]

sweep(m, now_ms, suspect_timeout_ms, not_ready_timeout_ms) ==
    [n \in DOMAIN m |->
        sweep_entry(m[n], now_ms, suspect_timeout_ms, not_ready_timeout_ms)]

\* unordered_map::erase(key): the map without the key, and the number erased
erase(m, node_name) ==
    [map |-> [n \in DOMAIN m \ {node_name} |-> m[n]],
     count |-> IF node_name \in DOMAIN m THEN 1 ELSE 0]

\* variant: the erase count compared with >= 0
remove_always_true(m, node_name) ==
    [map |-> erase(m, node_name).map, ret |-> erase(m, node_name).count >= 0]

remove(m, node_name) ==
    [map |-> erase(m, node_name).map, ret |-> erase(m, node_name).count > 0]

exists(m, node_name) == node_name \in DOMAIN m

size(m) == Cardinality(DOMAIN m)

\* the vectors snapshot() can return: one copy of every entry, in the
\* unspecified iteration order of the unordered_map
snapshot(m) ==
    { s \in [1..Cardinality(DOMAIN m) -> {m[n] : n \in DOMAIN m}] :
        \A n \in DOMAIN m : \E i \in DOMAIN s : s[i] = m[n] }

(* ---- state machine of the sequential registry ---- *)
Handlers == {1, 2}

IdleRpc ==
    [pc |-> "idle", kind |-> "none", name |-> "", now |-> 0,
     client_ms |-> 0, reads |-> 0, heartbeat_count |-> 0,
     accepted |-> FALSE, status |-> "none"]

\* the coordinator before main() has started anything
CoordIdle ==
    /\ clock = 0
    /\ g_running = TRUE
    /\ rpc = [h \in Handlers |-> IdleRpc]
    /\ mon = [pc |-> "loop", now |-> 0]
    /\ calls = 0
    /\ nodes2 = <<>>

\* threads calling the registry in the statement-level run: the touchers,
\* then one thread each for sweep, snapshot and upsert
NumTouchers == 2

Touchers == 1..NumTouchers
Sweeper == NumTouchers + 1
Reader == NumTouchers + 2
Upserter == NumTouchers + 3
Remover == NumTouchers + 4
ConcThreads == 1..(NumTouchers + 4)

NewThread == [pc |-> "unborn", view |-> <<>>, done |-> {}, out |-> <<>>]

ConcIdle ==
    /\ mutex_ = 0
    /\ thr = [t \in ConcThreads |-> NewThread]

\* bound of the model: heartbeats an agent sends before it only fails or stops
MaxHeartbeats == 2

\* the agent process before main() runs: agent/main.cpp lines 181, 335-337
AgentIdle ==
    agent = [main |-> "start", hb |-> "none", g_running |-> TRUE,
             node_name |-> "", status_ok |-> FALSE, accepted |-> FALSE,
             registered |-> FALSE, called |-> FALSE, stream |-> "none",
             heartbeat_count |-> 0, finish_ok |-> FALSE, exit_code |-> -1,
             write_failed |-> FALSE, sig |-> "none",
             hb_at_signal |-> "none", count_at_signal |-> 0]

Init ==
    /\ CoordIdle
    /\ ConcIdle
    /\ AgentIdle
    /\ nodes = <<>>
    /\ prev = <<>>
    /\ last = Call("init", "", 0, 0, 0)
    /\ ret = NoRet
    /\ live = {}
    /\ upserts = 0
    /\ arg = NoArg

Upsert(node) ==
    /\ upserts < MaxUpserts
    /\ upserts' = upserts + 1
    /\ nodes' = upsert(nodes, node)
    /\ prev' = nodes
    /\ last' = Call("upsert", node.name, 0, 0, 0)
    /\ ret' = NoRet
    /\ live' = live \cup {node.name}
    /\ arg' = node
    /\ UNCHANGED elsewhere

Touch(node_name, now_ms) ==
    /\ nodes' = touch(nodes, node_name, now_ms)
    /\ prev' = nodes
    /\ last' = Call("touch", node_name, now_ms, 0, 0)
    /\ ret' = NoRet
    /\ live' = live
    /\ arg' = NoArg
    /\ UNCHANGED <<upserts, elsewhere>>

Sweep(now_ms, suspect_timeout_ms, not_ready_timeout_ms) ==
    /\ nodes' = sweep(nodes, now_ms, suspect_timeout_ms, not_ready_timeout_ms)
    /\ prev' = nodes
    /\ last' = Call("sweep", "", now_ms, suspect_timeout_ms, not_ready_timeout_ms)
    /\ ret' = NoRet
    /\ live' = live
    /\ arg' = NoArg
    /\ UNCHANGED <<upserts, elsewhere>>

Remove(node_name) ==
    /\ nodes' = remove(nodes, node_name).map
    /\ prev' = nodes
    /\ last' = Call("remove", node_name, 0, 0, 0)
    /\ ret' = remove(nodes, node_name).ret
    /\ live' = live \ {node_name}
    /\ arg' = NoArg
    /\ UNCHANGED <<upserts, elsewhere>>

Exists(node_name) ==
    /\ ret' = exists(nodes, node_name)
    /\ prev' = nodes
    /\ last' = Call("exists", node_name, 0, 0, 0)
    /\ arg' = NoArg
    /\ UNCHANGED <<nodes, live, upserts, elsewhere>>

Size ==
    /\ ret' = size(nodes)
    /\ prev' = nodes
    /\ last' = Call("size", "", 0, 0, 0)
    /\ arg' = NoArg
    /\ UNCHANGED <<nodes, live, upserts, elsewhere>>

Snapshot ==
    /\ ret' \in snapshot(nodes)
    /\ prev' = nodes
    /\ last' = Call("snapshot", "", 0, 0, 0)
    /\ UNCHANGED <<nodes, live, upserts, arg, elsewhere>>

Next ==
    \/ \E node \in UpsertInputs : Upsert(node)
    \/ \E n \in Names, t \in Times : Touch(n, t)
    \/ \E t \in Times, th \in Thresholds : Sweep(t, th[1], th[2])
    \/ \E n \in Names : Remove(n)
    \/ \E n \in Names : Exists(n)
    \/ Size
    \/ Snapshot

Spec == Init /\ [][Next]_vars

(* ---- the coordinator: src/src/control/main.cpp lines 109-233 ---- *)
\* RPCs dispatched in one run
MaxCalls == 2
\* heartbeats read from one stream
MaxReads == 2

\* node names a RegisterRequest can carry: the empty name too
CoordNames == Names \cup {""}

\* readings of the coordinator clock: two registration instants and the
\* neighbourhood of the timeouts the monitor sweeps with
ClockTimes ==
    { 0, 0 + 1,
      HEARTBEAT_TIMEOUT_MS + 1,
      DEFAULT_NOT_READY_TIMEOUT_MS + 1 }

\* Heartbeat.now_unix_ms as the agents send it
ClientTimes == {5, 99999}

\* Heartbeat.now_unix_ms in the second run: one fixed value, so that every
\* first run is compared with the same second run
ClientTimeOfSecondRun ==
    CHOOSE c \in ClientTimes : \A d \in ClientTimes : c <= d

\* context->peer() of the connection a handler serves
PeerOf(h) == IF h = 1 THEN "peer-1" ELSE "peer-2"

\* variant: the empty-name test left out
ValidName_any(node_name) == TRUE

\* if (node_name.empty()) reject: line 118
ValidName(node_name) == node_name # ""

\* variant: node_state.last_seen_ms never assigned from now_ms()
RegisterState_no_time(node_name, peer, now_ms) ==
    [name |-> node_name, peer |-> peer, last_seen_ms |-> 0, status |-> READY]

\* variant: node_state.status left at the NodeState default
RegisterState_default_status(node_name, peer, now_ms) ==
    [name |-> node_name, peer |-> peer, last_seen_ms |-> now_ms,
     status |-> DefaultNodeState.status]

\* the NodeState RegisterNode builds: lines 133-137
RegisterState(node_name, peer, now_ms) ==
    [name |-> node_name, peer |-> peer, last_seen_ms |-> now_ms, status |-> READY]

\* variant: the touch made with the time the agent sent
HeartbeatTouch_client_time(m, node_name, now_ms, now_unix_ms) ==
    touch(m, node_name, now_unix_ms)

\* node_registry_.touch(node_name, tinykube::now_ms()): line 168; the
\* heartbeat's own timestamp is only printed
HeartbeatTouch(m, node_name, now_ms, now_unix_ms) ==
    touch(m, node_name, now_ms)

\* variant: the monitor drops the entries it finds past a threshold
MonitorSweep_evicting(m, now_ms) ==
    sweep_evicting(m, now_ms, HEARTBEAT_TIMEOUT_MS, DEFAULT_NOT_READY_TIMEOUT_MS)

\* variant: sweep called with its default suspect timeout
MonitorSweep_default_timeouts(m, now_ms) ==
    sweep(m, now_ms, DEFAULT_SUSPECT_TIMEOUT_MS, DEFAULT_NOT_READY_TIMEOUT_MS)

\* node_registry_.sweep(tinykube::now_ms(), HEARTBEAT_TIMEOUT_MS): line 180
MonitorSweep(m, now_ms) ==
    sweep(m, now_ms, HEARTBEAT_TIMEOUT_MS, DEFAULT_NOT_READY_TIMEOUT_MS)

Free(h) == rpc[h].pc \in {"idle", "done"}

\* RegisterNode up to the upsert: the name is validated, exists() is called
\* for the log line, and now_ms() is read into node_state
RegisterNode_begin(h, node_name) ==
    /\ Free(h)
    /\ g_running
    /\ calls < MaxCalls
    /\ calls' = calls + 1
    /\ rpc' = [rpc EXCEPT ![h] =
          IF ~ValidName(node_name)
          THEN [IdleRpc EXCEPT !.pc = "done", !.kind = "RegisterNode",
                               !.accepted = FALSE, !.status = "OK"]
          ELSE [IdleRpc EXCEPT !.pc = "reg_upsert", !.kind = "RegisterNode",
                               !.name = node_name, !.now = clock]]
    /\ UNCHANGED <<nodes, nodes2, clock, g_running, mon, regVarsButNodes>>

\* node_registry_.upsert(node_state), the size() of the log line, the response
RegisterNode_upsert(h) ==
    /\ rpc[h].pc = "reg_upsert"
    /\ nodes' = upsert(nodes, RegisterState(rpc[h].name, PeerOf(h), rpc[h].now))
    /\ nodes2' = upsert(nodes2, RegisterState(rpc[h].name, PeerOf(h), rpc[h].now))
    /\ rpc' = [rpc EXCEPT ![h] =
          [IdleRpc EXCEPT !.pc = "done", !.kind = "RegisterNode",
                          !.name = rpc[h].name,
                          !.accepted = TRUE, !.status = "OK"]]
    /\ UNCHANGED <<clock, g_running, mon, calls, regVarsButNodes>>

StreamHeartbeats_begin(h) ==
    /\ Free(h)
    /\ g_running
    /\ calls < MaxCalls
    /\ calls' = calls + 1
    /\ rpc' = [rpc EXCEPT ![h] =
          [IdleRpc EXCEPT !.pc = "hb_read", !.kind = "StreamHeartbeats"]]
    /\ UNCHANGED <<nodes, nodes2, clock, g_running, mon, regVarsButNodes>>

\* variant: a heartbeat of an unregistered node ends the stream with an error
StreamHeartbeats_read_abort(h, node_name, now_unix_ms) ==
    /\ rpc[h].pc = "hb_read"
    /\ rpc[h].reads < MaxReads
    /\ rpc' = [rpc EXCEPT ![h] =
          IF ~exists(nodes, node_name)
          THEN [rpc[h] EXCEPT !.reads = @ + 1, !.pc = "done",
                              !.status = "NOT_FOUND", !.name = "", !.now = 0,
                              !.client_ms = 0]
          ELSE [rpc[h] EXCEPT !.reads = @ + 1, !.pc = "hb_touch",
                              !.name = node_name, !.now = clock,
                              !.client_ms = now_unix_ms]]
    /\ UNCHANGED <<nodes, nodes2, clock, g_running, mon, calls, regVarsButNodes>>

\* reader->Read() delivers a heartbeat; exists() decides whether it is
\* dropped (continue) or now_ms() is read for the touch
StreamHeartbeats_read(h, node_name, now_unix_ms) ==
    /\ rpc[h].pc = "hb_read"
    /\ rpc[h].reads < MaxReads
    /\ rpc' = [rpc EXCEPT ![h] =
          IF ~exists(nodes, node_name)
          THEN [rpc[h] EXCEPT !.reads = @ + 1, !.name = "", !.now = 0,
                              !.client_ms = 0]
          ELSE [rpc[h] EXCEPT !.reads = @ + 1, !.pc = "hb_touch",
                              !.name = node_name, !.now = clock,
                              !.client_ms = now_unix_ms]]
    /\ UNCHANGED <<nodes, nodes2, clock, g_running, mon, calls, regVarsButNodes>>

StreamHeartbeats_touch(h) ==
    /\ rpc[h].pc = "hb_touch"
    /\ nodes' = HeartbeatTouch(nodes, rpc[h].name, rpc[h].now, rpc[h].client_ms)
    /\ nodes2' = HeartbeatTouch(nodes2, rpc[h].name, rpc[h].now, ClientTimeOfSecondRun)
    /\ rpc' = [rpc EXCEPT ![h] =
          [rpc[h] EXCEPT !.pc = "hb_read", !.heartbeat_count = @ + 1,
                         !.name = "", !.now = 0]]
    /\ UNCHANGED <<clock, g_running, mon, calls, regVarsButNodes>>

\* reader->Read() returns false: the stream was closed or the connection
\* lost; the handler returns OK and its locals are gone
StreamHeartbeats_end(h) ==
    /\ rpc[h].pc = "hb_read"
    /\ rpc' = [rpc EXCEPT ![h] =
          [IdleRpc EXCEPT !.pc = "done", !.kind = "StreamHeartbeats",
                          !.status = "OK"]]
    /\ UNCHANGED <<nodes, nodes2, clock, g_running, mon, calls, regVarsButNodes>>

\* the monitor thread: while (g_running.load()), then the now_ms() handed to sweep
\* variant: the sweep is handed the time the monitor was started at
Monitor_clock_frozen ==
    /\ mon.pc = "loop"
    /\ g_running
    /\ mon' = [mon EXCEPT !.pc = "sweep", !.now = 0]
    /\ UNCHANGED <<nodes, nodes2, clock, g_running, rpc, calls, regVarsButNodes>>

Monitor_clock ==
    /\ mon.pc = "loop"
    /\ g_running
    /\ mon' = [mon EXCEPT !.pc = "sweep", !.now = clock]
    /\ UNCHANGED <<nodes, nodes2, clock, g_running, rpc, calls, regVarsButNodes>>

Monitor_exit ==
    /\ mon.pc = "loop"
    /\ ~g_running
    /\ mon' = [mon EXCEPT !.pc = "exit"]
    /\ UNCHANGED <<nodes, nodes2, clock, g_running, rpc, calls, regVarsButNodes>>

\* monitor_nodes(): the sweep; the snapshot is only printed
Monitor_sweep ==
    /\ mon.pc = "sweep"
    /\ nodes' = MonitorSweep(nodes, mon.now)
    /\ nodes2' = MonitorSweep(nodes2, mon.now)
    /\ mon' = [mon EXCEPT !.pc = "sleep", !.now = 0]
    /\ UNCHANGED <<clock, g_running, rpc, calls, regVarsButNodes>>

\* sleep_for(5 s) returns
Monitor_wake ==
    /\ mon.pc = "sleep"
    /\ mon' = [mon EXCEPT !.pc = "loop"]
    /\ UNCHANGED <<nodes, nodes2, clock, g_running, rpc, calls, regVarsButNodes>>

\* signal_handler: g_running.store(false); the server stops taking calls
CoordSignal ==
    /\ g_running
    /\ g_running' = FALSE
    /\ UNCHANGED <<nodes, nodes2, clock, rpc, mon, calls, regVarsButNodes>>

\* the system clock moves on
Tick(t) ==
    /\ t > clock
    /\ clock' = t
    /\ UNCHANGED <<nodes, nodes2, g_running, rpc, mon, calls, regVarsButNodes>>

CoordNext ==
    \/ \E h \in Handlers, n \in CoordNames : RegisterNode_begin(h, n)
    \/ \E h \in Handlers : RegisterNode_upsert(h)
    \/ \E h \in Handlers : StreamHeartbeats_begin(h)
    \/ \E h \in Handlers, n \in Names, c \in ClientTimes :
          StreamHeartbeats_read(h, n, c)
    \/ \E h \in Handlers : StreamHeartbeats_touch(h)
    \/ \E h \in Handlers : StreamHeartbeats_end(h)
    \/ Monitor_clock
    \/ Monitor_sweep
    \/ Monitor_wake
    \/ Monitor_exit
    \/ CoordSignal
    \/ \E t \in ClockTimes : Tick(t)

CoordSpec == Init /\ [][CoordNext]_vars

\* the steps of the monitor thread
MonitorStep ==
    \/ Monitor_clock
    \/ Monitor_sweep
    \/ Monitor_wake
    \/ Monitor_exit

\* the monitor thread is scheduled: when it can take a step it takes one in
\* the end. Nothing is promised about calls, the clock or the signal
CoordFairSpec == CoordSpec /\ WF_vars(MonitorStep)

(* ---- the registry methods statement by statement, under mutex_ ---- *)
\* what each thread calls
TouchedName == "node-a"
\* the timestamps the touchers submit: increasing with the thread
TouchTime(t) == t
\* the now of the sweeper: the entry created at 0 is past the not-ready timeout
SweeperNow == DEFAULT_NOT_READY_TIMEOUT_MS + 1
UpserterState ==
    [name |-> "node-b", peer |-> "peer-2", last_seen_ms |-> 0, status |-> READY]

\* the first statement of each method after the lock_guard
FirstPc(t) ==
    IF t \in Touchers THEN "touch_contains"
    ELSE IF t = Sweeper THEN "sweep_loop"
    ELSE IF t = Reader THEN "snapshot_loop"
    ELSE IF t = Upserter THEN "upsert_assign"
    ELSE "remove_erase"

\* what the whole method does to the map it found when it took the lock
Sequentially(t, m) ==
    IF t \in Touchers THEN touch(m, TouchedName, TouchTime(t))
    ELSE IF t = Sweeper
         THEN sweep(m, SweeperNow, DEFAULT_SUSPECT_TIMEOUT_MS,
                    DEFAULT_NOT_READY_TIMEOUT_MS)
    ELSE IF t = Reader THEN m
    ELSE IF t = Upserter THEN upsert(m, UpserterState)
    ELSE remove(m, UpserterState.name).map

\* variant: a lock_guard that does not wait for the holder
MutexFree_always(m) == TRUE

\* std::lock_guard<std::mutex> lock(mutex_) returns once the mutex is free
MutexFree(m) == m = 0

\* main() fills the registry, then the threads are started
ConcSetup(node) ==
    /\ \A t \in ConcThreads : thr[t].pc = "unborn"
    /\ nodes' = upsert(nodes, node)
    /\ thr' = [t \in ConcThreads |-> [NewThread EXCEPT !.pc = "start"]]
    /\ UNCHANGED <<mutex_, coordVars, agentVars, prev, last, ret, live, upserts, arg>>

Lock(t) ==
    /\ thr[t].pc = "start"
    /\ MutexFree(mutex_)
    /\ mutex_' = t
    /\ thr' = [thr EXCEPT ![t] = [@ EXCEPT !.pc = FirstPc(t), !.view = nodes]]
    /\ UNCHANGED <<nodes, coordVars, agentVars, prev, last, ret, live, upserts, arg>>

\* touch: if (nodes_.contains(node_name))
Touch_contains(t) ==
    /\ thr[t].pc = "touch_contains"
    /\ thr' = [thr EXCEPT ![t].pc =
          IF TouchedName \in DOMAIN nodes THEN "touch_last_seen" ELSE "unlock"]
    /\ UNCHANGED <<nodes, mutex_, coordVars, agentVars, prev, last, ret, live, upserts, arg>>

\* touch: nodes_[node_name].last_seen_ms = now_ms
Touch_last_seen(t) ==
    /\ thr[t].pc = "touch_last_seen"
    /\ nodes' = [n \in DOMAIN nodes \cup {TouchedName} |->
          IF n = TouchedName
          THEN [(IF n \in DOMAIN nodes THEN nodes[n] ELSE DefaultNodeState)
                    EXCEPT !.last_seen_ms = TouchTime(t)]
          ELSE nodes[n]]
    /\ thr' = [thr EXCEPT ![t].pc = "touch_status"]
    /\ UNCHANGED <<mutex_, coordVars, agentVars, prev, last, ret, live, upserts, arg>>

\* touch: nodes_[node_name].status = NodeStatus::READY
Touch_status(t) ==
    /\ thr[t].pc = "touch_status"
    /\ nodes' = [n \in DOMAIN nodes \cup {TouchedName} |->
          IF n = TouchedName
          THEN [(IF n \in DOMAIN nodes THEN nodes[n] ELSE DefaultNodeState)
                    EXCEPT !.status = READY]
          ELSE nodes[n]]
    /\ thr' = [thr EXCEPT ![t].pc = "unlock"]
    /\ UNCHANGED <<mutex_, coordVars, agentVars, prev, last, ret, live, upserts, arg>>

\* sweep: one iteration of for (auto& [name, state] : nodes_), over the
\* entries the map holds now, in the map's unspecified order
Sweep_visit(t, n) ==
    /\ thr[t].pc = "sweep_loop"
    /\ n \in DOMAIN nodes \ thr[t].done
    /\ nodes' = [nodes EXCEPT ![n] =
          sweep_entry(nodes[n], SweeperNow, DEFAULT_SUSPECT_TIMEOUT_MS,
                      DEFAULT_NOT_READY_TIMEOUT_MS)]
    /\ thr' = [thr EXCEPT ![t].done = @ \cup {n}]
    /\ UNCHANGED <<mutex_, coordVars, agentVars, prev, last, ret, live, upserts, arg>>

\* snapshot: one iteration of the copying loop
Snapshot_copy(t, n) ==
    /\ thr[t].pc = "snapshot_loop"
    /\ n \in DOMAIN nodes \ thr[t].done
    /\ thr' = [thr EXCEPT ![t].done = @ \cup {n},
                          ![t].out = Append(@, nodes[n])]
    /\ UNCHANGED <<nodes, mutex_, coordVars, agentVars, prev, last, ret, live, upserts, arg>>

\* the range-for of sweep or snapshot reaches end()
Loop_end(t) ==
    /\ thr[t].pc \in {"sweep_loop", "snapshot_loop"}
    /\ DOMAIN nodes \subseteq thr[t].done
    /\ thr' = [thr EXCEPT ![t].pc = "unlock"]
    /\ UNCHANGED <<nodes, mutex_, coordVars, agentVars, prev, last, ret, live, upserts, arg>>

\* upsert: nodes_[node.name] = node
Upsert_assign(t) ==
    /\ thr[t].pc = "upsert_assign"
    /\ nodes' = upsert(nodes, UpserterState)
    /\ thr' = [thr EXCEPT ![t].pc = "unlock"]
    /\ UNCHANGED <<mutex_, coordVars, agentVars, prev, last, ret, live, upserts, arg>>

\* remove: return nodes_.erase(node_name) > 0
Remove_erase(t) ==
    /\ thr[t].pc = "remove_erase"
    /\ nodes' = remove(nodes, UpserterState.name).map
    /\ thr' = [thr EXCEPT ![t].pc = "unlock"]
    /\ UNCHANGED <<mutex_, coordVars, agentVars, prev, last, ret, live, upserts, arg>>

\* the lock_guard is destroyed and the method returns
Unlock(t) ==
    /\ thr[t].pc = "unlock"
    /\ mutex_' = 0
    /\ thr' = [thr EXCEPT ![t].pc = "done"]
    /\ UNCHANGED <<nodes, coordVars, agentVars, prev, last, ret, live, upserts, arg>>

ConcNext ==
    \/ \E s \in NodeStatus :
          ConcSetup([name |-> TouchedName, peer |-> "peer-1",
                     last_seen_ms |-> 0, status |-> s])
    \/ \E t \in ConcThreads : Lock(t)
    \/ \E t \in Touchers : Touch_contains(t)
    \/ \E t \in Touchers : Touch_last_seen(t)
    \/ \E t \in Touchers : Touch_status(t)
    \/ \E n \in Names : Sweep_visit(Sweeper, n)
    \/ \E n \in Names : Snapshot_copy(Reader, n)
    \/ \E t \in {Sweeper, Reader} : Loop_end(t)
    \/ Upsert_assign(Upserter)
    \/ Remove_erase(Remover)
    \/ \E t \in ConcThreads : Unlock(t)

ConcSpec == Init /\ [][ConcNext]_vars

(* ---- the agent: src/src/agent/main.cpp lines 175-356 ---- *)
\* variant: the return value taken from the transport status alone
RegisterWithControlPlane_status_only(status_ok, accepted) == status_ok

\* RegisterWithControlPlane returns true only for an OK status whose response
\* says accepted
RegisterWithControlPlane(status_ok, accepted) ==
    IF status_ok
    THEN IF accepted THEN TRUE ELSE FALSE
    ELSE FALSE

\* main: the arguments are parsed; an empty node name ends the process with 1,
\* otherwise the signal handlers are installed and the agent is built
Agent_parse(node_name) ==
    /\ agent.main = "start"
    /\ agent' = IF node_name = ""
                THEN [agent EXCEPT !.main = "exited", !.exit_code = 1]
                ELSE [agent EXCEPT !.main = "register", !.node_name = node_name]
    /\ UNCHANGED <<regVars, coordVars, concVars>>

\* the blocking stub_->RegisterNode call comes back with a status and a response
Agent_register(status_ok, accepted) ==
    /\ agent.main = "register"
    /\ agent' = [agent EXCEPT
          !.main = "branch", !.called = TRUE,
          !.status_ok = status_ok,
          !.accepted = status_ok /\ accepted,
          !.registered = RegisterWithControlPlane(status_ok, accepted)]
    /\ UNCHANGED <<regVars, coordVars, concVars>>

\* main: if (agent.RegisterWithControlPlane()) starts the heartbeat thread,
\* else returns 1
Agent_branch ==
    /\ agent.main = "branch"
    /\ agent' = IF agent.registered
                THEN [agent EXCEPT !.main = "wait", !.hb = "open"]
                ELSE [agent EXCEPT !.main = "exited", !.exit_code = 1]
    /\ UNCHANGED <<regVars, coordVars, concVars>>

\* StartHeartbeats: the client stream is created
StartHeartbeats_open ==
    /\ agent.hb = "open"
    /\ agent' = [agent EXCEPT !.hb = "loop", !.stream = "open",
                              !.heartbeat_count = 0]
    /\ UNCHANGED <<regVars, coordVars, concVars>>

\* variant: a loop that never looks at the flag
LoopCondition_always(a) == TRUE

\* g_running.load(std::memory_order_relaxed) as the loop condition
LoopCondition(a) == a.g_running

\* StartHeartbeats: while (g_running.load())
StartHeartbeats_loop ==
    /\ agent.hb = "loop"
    /\ agent' = [agent EXCEPT !.hb = IF LoopCondition(agent) THEN "write"
                                     ELSE "writes_done"]
    /\ UNCHANGED <<regVars, coordVars, concVars>>

\* StartHeartbeats: writer->Write(heartbeat) succeeds or fails; a failure
\* leaves the loop
\* variant: a failed Write is followed by the sleep and another attempt
StartHeartbeats_write_retry(written) ==
    /\ agent.hb = "write"
    /\ written => agent.heartbeat_count < MaxHeartbeats
    /\ agent' = IF written
                THEN [agent EXCEPT !.hb = "sleep",
                                   !.heartbeat_count = @ + 1]
                ELSE [agent EXCEPT !.hb = "sleep", !.write_failed = TRUE]
    /\ UNCHANGED <<regVars, coordVars, concVars>>

StartHeartbeats_write(written) ==
    /\ agent.hb = "write"
    /\ written => agent.heartbeat_count < MaxHeartbeats
    /\ agent' = IF written
                THEN [agent EXCEPT !.hb = "sleep",
                                   !.heartbeat_count = @ + 1]
                ELSE [agent EXCEPT !.hb = "writes_done", !.write_failed = TRUE]
    /\ UNCHANGED <<regVars, coordVars, concVars>>

\* StartHeartbeats: sleep_for(1 s) ends
StartHeartbeats_sleep ==
    /\ agent.hb = "sleep"
    /\ agent' = [agent EXCEPT !.hb = "loop"]
    /\ UNCHANGED <<regVars, coordVars, concVars>>

\* StartHeartbeats: writer->WritesDone()
StartHeartbeats_writes_done ==
    /\ agent.hb = "writes_done"
    /\ agent' = [agent EXCEPT !.hb = "finish", !.stream = "writes_done"]
    /\ UNCHANGED <<regVars, coordVars, concVars>>

\* StartHeartbeats: writer->Finish() and the thread function returns
StartHeartbeats_finish(finish_ok) ==
    /\ agent.hb = "finish"
    /\ agent' = [agent EXCEPT !.hb = "returned", !.stream = "finished",
                              !.finish_ok = finish_ok]
    /\ UNCHANGED <<regVars, coordVars, concVars>>

\* variant: a wait that does not look at the flag
WaitPredicate_always(a) == TRUE

\* the predicate handed to shutdown_cv.wait: !g_running.load()
WaitPredicate(a) == ~a.g_running

\* main: shutdown_cv.wait(lock, pred) evaluates pred with the lock held; it
\* returns when pred is true and calls wait(lock) when it is false
Agent_wait ==
    /\ agent.main = "wait"
    /\ agent' = [agent EXCEPT !.main = IF WaitPredicate(agent) THEN "join"
                                       ELSE "cv_wait"]
    /\ UNCHANGED <<regVars, coordVars, concVars>>

\* main: wait(lock) releases shutdown_mutex and blocks on shutdown_cv
Agent_block ==
    /\ agent.main = "cv_wait"
    /\ agent' = [agent EXCEPT !.main = "blocked"]
    /\ UNCHANGED <<regVars, coordVars, concVars>>

\* main: a wake-up of the condition variable that nobody sent
Agent_spurious_wakeup ==
    /\ agent.main = "blocked"
    /\ agent' = [agent EXCEPT !.main = "wait"]
    /\ UNCHANGED <<regVars, coordVars, concVars>>

\* main: heartbeat_thread.join() returns and main returns 0
Agent_join ==
    /\ agent.main = "join"
    /\ agent.hb = "returned"
    /\ agent' = [agent EXCEPT !.main = "exited", !.exit_code = 0]
    /\ UNCHANGED <<regVars, coordVars, concVars>>

\* SIGINT or SIGTERM once the handler is installed: g_running.store(false).
\* One signal is delivered at most; where the heartbeat thread stood and what
\* it had sent is remembered
signal_handler_store ==
    /\ agent.main \notin {"start", "exited"}
    /\ agent.sig = "none"
    /\ agent' = [agent EXCEPT !.g_running = FALSE, !.sig = "stored",
                              !.hb_at_signal = agent.hb,
                              !.count_at_signal = agent.heartbeat_count]
    /\ UNCHANGED <<regVars, coordVars, concVars>>

\* signal_handler: shutdown_cv.notify_all(), made without shutdown_mutex; it
\* wakes the main thread only if that thread is blocked on shutdown_cv
signal_handler_notify ==
    /\ agent.sig = "stored"
    /\ agent' = [agent EXCEPT !.sig = "notified",
                              !.main = IF @ = "blocked" THEN "wait" ELSE @]
    /\ UNCHANGED <<regVars, coordVars, concVars>>

AgentNext ==
    \/ \E n \in CoordNames : Agent_parse(n)
    \/ \E s \in BOOLEAN, a \in BOOLEAN : Agent_register(s, a)
    \/ Agent_branch
    \/ StartHeartbeats_open
    \/ StartHeartbeats_loop
    \/ \E w \in BOOLEAN : StartHeartbeats_write(w)
    \/ StartHeartbeats_sleep
    \/ StartHeartbeats_writes_done
    \/ \E f \in BOOLEAN : StartHeartbeats_finish(f)
    \/ Agent_wait
    \/ Agent_block
    \/ Agent_spurious_wakeup
    \/ Agent_join
    \/ signal_handler_store
    \/ signal_handler_notify

AgentSpec == Init /\ [][AgentNext]_vars

\* the steps of the main thread
AgentMainStep ==
    \/ \E n \in CoordNames : Agent_parse(n)
    \/ \E s \in BOOLEAN, a \in BOOLEAN : Agent_register(s, a)
    \/ Agent_branch
    \/ Agent_wait
    \/ Agent_block
    \/ Agent_join

\* the steps of the heartbeat thread
HeartbeatStep ==
    \/ StartHeartbeats_open
    \/ StartHeartbeats_loop
    \/ \E w \in BOOLEAN : StartHeartbeats_write(w)
    \/ StartHeartbeats_sleep
    \/ StartHeartbeats_writes_done
    \/ \E f \in BOOLEAN : StartHeartbeats_finish(f)

\* every thread that can take a step takes one in the end, and a handler that
\* has started runs to its end; nothing promises a signal or a spurious wake-up
AgentFairSpec ==
    /\ AgentSpec
    /\ WF_vars(AgentMainStep)
    /\ WF_vars(HeartbeatStep)
    /\ WF_vars(signal_handler_notify)

(* ---- properties ---- *)
\* silence of entry n, as the last sweep saw it
Elapsed(n) == last.now - prev[n].last_seen_ms

DefaultSweep ==
    /\ last.op = "sweep"
    /\ last.suspect_timeout_ms = DEFAULT_SUSPECT_TIMEOUT_MS
    /\ last.not_ready_timeout_ms = DEFAULT_NOT_READY_TIMEOUT_MS

\* C1: after every operation exists(name) is true exactly for the names
\* upserted and not removed since, and size() is the number of those names;
\* an upsert of a name already present leaves size() as it was.
C1_PresenceAndSize ==
    /\ \A n \in Names : exists(nodes, n) <=> n \in live
    /\ size(nodes) = Cardinality(live)
    /\ last.op = "exists" => ret = (last.name \in live)
    /\ last.op = "size" => ret = Cardinality(live)
    /\ (last.op = "upsert" /\ last.name \in DOMAIN prev) => size(nodes) = size(prev)

\* a second upsert of the name that is already there: size() stays 1
C1_Witness ==
    /\ last.op = "upsert"
    /\ last.name \in DOMAIN prev
    /\ size(nodes) = 1
    /\ upserts = 2

\* C2: touch of a name that is not registered creates no entry and changes
\* no field of any entry.
C2_TouchAbsentIsNoOp ==
    (last.op = "touch" /\ last.name \notin DOMAIN prev) =>
        /\ nodes = prev
        /\ size(nodes) = size(prev)
        /\ last.name \notin DOMAIN nodes

\* a touch of an absent name while another entry is registered
C2_Witness ==
    /\ last.op = "touch"
    /\ last.name \notin DOMAIN prev
    /\ size(prev) = 1

\* C3: touch of a registered name sets that entry's last_seen_ms to now and
\* its status to READY whatever the status was, keeps its name and peer, and
\* leaves every other entry as it was.
C3_TouchExisting ==
    (last.op = "touch" /\ last.name \in DOMAIN prev) =>
        /\ DOMAIN nodes = DOMAIN prev
        /\ nodes[last.name].last_seen_ms = last.now
        /\ nodes[last.name].status = READY
        /\ nodes[last.name].name = prev[last.name].name
        /\ nodes[last.name].peer = prev[last.name].peer
        /\ \A n \in DOMAIN prev \ {last.name} : nodes[n] = prev[n]

\* a touch of an entry that was UNKNOWN, beside an entry that is not READY
C3_Witness ==
    /\ last.op = "touch"
    /\ last.name \in DOMAIN prev
    /\ prev[last.name].status = UNKNOWN
    /\ last.now # prev[last.name].last_seen_ms
    /\ \E n \in DOMAIN nodes \ {last.name} : nodes[n].status = SUSPECT

\* C4: under sweep(now, 30000, 10000) an entry silent for at most 10000 ms
\* keeps its status and an entry silent for more than 10000 ms is NOT_READY.
C4_DefaultSweepThreshold ==
    DefaultSweep =>
        \A n \in DOMAIN prev :
            /\ n \in DOMAIN nodes
            /\ Elapsed(n) <= DEFAULT_NOT_READY_TIMEOUT_MS =>
                   nodes[n].status = prev[n].status
            /\ Elapsed(n) > DEFAULT_NOT_READY_TIMEOUT_MS =>
                   nodes[n].status = NOT_READY

\* a default sweep that finds a READY entry exactly at the boundary and
\* another entry one millisecond past it
C4_Witness ==
    /\ DefaultSweep
    /\ \E a, b \in DOMAIN prev :
        /\ Elapsed(a) = DEFAULT_NOT_READY_TIMEOUT_MS
        /\ prev[a].status = READY /\ nodes[a].status = READY
        /\ Elapsed(b) = DEFAULT_NOT_READY_TIMEOUT_MS + 1
        /\ prev[b].status = READY /\ nodes[b].status = NOT_READY

\* C5: sweep(now, 30000, 10000) never sets SUSPECT: an entry that is SUSPECT
\* after it was SUSPECT before it, and an entry past the suspect threshold is
\* NOT_READY.
C5_DefaultSweepNeverSuspect ==
    DefaultSweep =>
        \A n \in DOMAIN nodes :
            /\ nodes[n].status = SUSPECT => prev[n].status = SUSPECT
            /\ Elapsed(n) > DEFAULT_SUSPECT_TIMEOUT_MS => nodes[n].status = NOT_READY

\* a default sweep of a READY entry silent for more than 30000 ms
C5_Witness ==
    /\ DefaultSweep
    /\ \E n \in DOMAIN nodes :
        /\ Elapsed(n) > DEFAULT_SUSPECT_TIMEOUT_MS
        /\ prev[n].status = READY
        /\ nodes[n].status = NOT_READY

\* C6: whatever the thresholds and now, an entry that is READY, RESERVED or
\* UNKNOWN after a sweep had that same status before the sweep.
C6_SweepNeverSetsReadyReservedUnknown ==
    last.op = "sweep" =>
        \A n \in DOMAIN nodes :
            nodes[n].status \in {READY, RESERVED, UNKNOWN} =>
                (n \in DOMAIN prev /\ prev[n].status = nodes[n].status)

\* a sweep that demotes one entry and leaves a fresh NOT_READY entry alone
C6_Witness ==
    /\ last.op = "sweep"
    /\ \E a, b \in DOMAIN nodes :
        /\ prev[a].status = READY /\ nodes[a].status = SUSPECT
        /\ prev[b].status = NOT_READY /\ nodes[b].status = NOT_READY
        /\ Elapsed(b) <= last.not_ready_timeout_ms
        /\ Elapsed(b) <= last.suspect_timeout_ms

\* the severity order READY, NOT_READY, SUSPECT
Severity(status) ==
    CASE status = READY -> 0
      [] status = NOT_READY -> 1
      [] status = SUSPECT -> 2

\* C7: a sweep never moves an entry to a healthier status in the severity
\* order READY, NOT_READY, SUSPECT.
C7_SweepNeverPromotes ==
    last.op = "sweep" =>
        \A n \in DOMAIN nodes :
            ({prev[n].status, nodes[n].status} \subseteq {READY, NOT_READY, SUSPECT}) =>
                Severity(nodes[n].status) >= Severity(prev[n].status)

\* truth of the suspect / not-ready tests for entry n at the last sweep
PastAThreshold(n) ==
    \/ Elapsed(n) > last.not_ready_timeout_ms
    \/ Elapsed(n) > last.suspect_timeout_ms

\* C8 as stated: after a sweep two entries with the same last_seen_ms have
\* the same status, whatever status each had before.
C8_StatusPureFunctionAfterSweep ==
    last.op = "sweep" =>
        \A a, b \in DOMAIN nodes :
            nodes[a].last_seen_ms = nodes[b].last_seen_ms =>
                nodes[a].status = nodes[b].status

\* C8 amended: after a sweep, two entries with the same last_seen_ms whose
\* silence exceeds one of the two thresholds have the same status whatever
\* status each had before; an entry whose silence exceeds neither threshold
\* keeps the status it had.
C8_StatusPureFunctionPastThreshold ==
    last.op = "sweep" =>
        /\ \A a, b \in DOMAIN nodes :
              (nodes[a].last_seen_ms = nodes[b].last_seen_ms /\ PastAThreshold(a)) =>
                  nodes[a].status = nodes[b].status
        /\ \A n \in DOMAIN nodes :
              ~PastAThreshold(n) => nodes[n].status = prev[n].status

\* a sweep of two entries with one last_seen_ms, past a threshold, that
\* differed in status before it
C8_Witness ==
    /\ last.op = "sweep"
    /\ \E a, b \in DOMAIN nodes :
        /\ a # b
        /\ nodes[a].last_seen_ms = nodes[b].last_seen_ms
        /\ PastAThreshold(a)
        /\ prev[a].status = READY
        /\ prev[b].status = UNKNOWN
        /\ nodes[a].status = nodes[b].status

\* C9: sweep, touch and upsert never remove an entry; sweep keeps the set of
\* names and every entry's name, peer and last_seen_ms; only remove makes a
\* name disappear.
C9_OnlyRemoveRemoves ==
    /\ last.op \in {"sweep", "touch", "upsert"} => DOMAIN prev \subseteq DOMAIN nodes
    /\ last.op = "sweep" =>
          /\ DOMAIN nodes = DOMAIN prev
          /\ \A n \in DOMAIN prev :
                /\ nodes[n].name = prev[n].name
                /\ nodes[n].peer = prev[n].peer
                /\ nodes[n].last_seen_ms = prev[n].last_seen_ms
    /\ ~(DOMAIN prev \subseteq DOMAIN nodes) => last.op = "remove"

\* a sweep that turns one entry SUSPECT and another NOT_READY: both stay
C9_Witness ==
    /\ last.op = "sweep"
    /\ \E a, b \in DOMAIN nodes :
        /\ prev[a].status = READY /\ nodes[a].status = SUSPECT
        /\ prev[b].status = READY /\ nodes[b].status = NOT_READY

\* what remove(name) returned and did
RemoveResult ==
    last.op = "remove" =>
        /\ ret = (last.name \in DOMAIN prev)
        /\ DOMAIN nodes = DOMAIN prev \ {last.name}
        /\ \A n \in DOMAIN nodes : nodes[n] = prev[n]
        /\ ret = FALSE => nodes = prev

\* C10: remove(name) returns true exactly when the name was registered and
\* then deletes that entry, returns false and changes nothing otherwise,
\* leaves every other entry alone, and a remove that follows a remove of the
\* same name returns false.
C10_Remove ==
    [][ /\ RemoveResult'
        /\ (last.op = "remove" /\ last'.op = "remove" /\ last'.name = last.name)
               => ret' = FALSE ]_vars

\* a remove that deleted one entry and left the other registered
C10_Witness ==
    /\ last.op = "remove"
    /\ ret = TRUE
    /\ last.name \in DOMAIN prev
    /\ size(nodes) = 1

\* C11: a snapshot() taken right after upsert(s) holds exactly one entry with
\* the name of s, and that entry equals s in name, peer, last_seen_ms and
\* status, also when the name was registered before the upsert.
C11_UpsertSnapshotRoundTrip ==
    (last.op = "snapshot" /\ arg # NoArg) =>
        /\ Cardinality({i \in DOMAIN ret : ret[i].name = arg.name}) = 1
        /\ \A i \in DOMAIN ret :
              ret[i].name = arg.name =>
                  /\ ret[i].peer = arg.peer
                  /\ ret[i].last_seen_ms = arg.last_seen_ms
                  /\ ret[i].status = arg.status
        /\ Len(ret) = size(nodes)

\* a snapshot right after an upsert that overwrote an entry with another peer
\* and another status; both upserts are spent, so the overwrite was the last
C11_Witness ==
    /\ last.op = "snapshot"
    /\ arg # NoArg
    /\ upserts = 2
    /\ Len(ret) = 1
    /\ ret[1] = arg
    /\ arg.peer = "peer-2"
    /\ arg.status = SUSPECT

\* C12: RegisterNode with an empty node name answers accepted = false and
\* leaves the set of entries and every field of every entry as they were.
C12_EmptyNameRejected ==
    [][ \A h \in Handlers :
          (Free(h) /\ RegisterNode_begin(h, "")) =>
              /\ nodes' = nodes
              /\ rpc'[h].pc = "done"
              /\ rpc'[h].accepted = FALSE
              /\ rpc'[h].status = "OK" ]_vars

\* an empty-name registration answered while a node is registered
C12_Witness ==
    /\ nodes # <<>>
    /\ \E h \in Handlers :
        /\ rpc[h].pc = "done"
        /\ rpc[h].kind = "RegisterNode"
        /\ rpc[h].name = ""
        /\ rpc[h].accepted = FALSE
        /\ rpc[h].status = "OK"

\* C13: RegisterNode with a non-empty name reads the coordinator clock, leaves
\* exactly one entry for the name, READY, with last_seen_ms the time it read
\* and the peer of its connection, grows the registry by one if the name was
\* absent and by zero if it was present, touches no other entry and answers
\* accepted = true; this for every interleaving of the two handlers.
C13_RegisterUpserts ==
    [][ \A h \in Handlers :
          /\ \A n \in Names :
                (Free(h) /\ RegisterNode_begin(h, n)) =>
                    /\ rpc'[h].pc = "reg_upsert"
                    /\ rpc'[h].name = n
                    /\ rpc'[h].now = clock
          /\ (rpc[h].pc = "reg_upsert" /\ RegisterNode_upsert(h)) =>
                /\ rpc[h].name \in Names
                /\ DOMAIN nodes' = DOMAIN nodes \cup {rpc[h].name}
                /\ nodes'[rpc[h].name] =
                       [name |-> rpc[h].name, peer |-> PeerOf(h),
                        last_seen_ms |-> rpc[h].now, status |-> READY]
                /\ size(nodes') =
                       size(nodes) + (IF exists(nodes, rpc[h].name) THEN 0 ELSE 1)
                /\ \A o \in DOMAIN nodes \ {rpc[h].name} : nodes'[o] = nodes[o]
                /\ rpc'[h].accepted = TRUE
                /\ rpc'[h].status = "OK" ]_vars

\* both handlers have registered the same name, the second after the clock
\* had moved: one entry, READY
C13_Witness ==
    /\ \A h \in Handlers :
        /\ rpc[h].pc = "done"
        /\ rpc[h].kind = "RegisterNode"
        /\ rpc[h].name = "node-a"
        /\ rpc[h].accepted = TRUE
    /\ size(nodes) = 1
    /\ nodes["node-a"].status = READY
    /\ nodes["node-a"].last_seen_ms > 0

\* C14: a heartbeat of a name that is not registered creates no entry and
\* changes no field of any entry, the handler goes back to reading the
\* stream, and a stream that has ended returned OK.
C14_UnknownHeartbeatDropped ==
    [][ \A h \in Handlers :
          /\ rpc[h].pc = "hb_read" =>
                \A n \in Names \ DOMAIN nodes, c \in ClientTimes :
                    StreamHeartbeats_read(h, n, c) =>
                        /\ nodes' = nodes
                        /\ rpc'[h].pc = "hb_read"
                        /\ rpc'[h].heartbeat_count = rpc[h].heartbeat_count
          /\ (rpc'[h].kind = "StreamHeartbeats" /\ rpc'[h].pc = "done") =>
                rpc'[h].status = "OK" ]_vars

\* a stream still being read after one of its heartbeats was dropped and
\* one was applied
C14_Witness ==
    \E h \in Handlers :
        /\ rpc[h].kind = "StreamHeartbeats"
        /\ rpc[h].pc = "hb_read"
        /\ rpc[h].reads = 2
        /\ rpc[h].heartbeat_count = 1

\* C15: the run that receives arbitrary client timestamps and the run that
\* receives the fixed one, with the same registrations, heartbeats, clock
\* readings and sweeps, hold the same registry.
C15_ClientTimeIgnored == nodes = nodes2

\* a heartbeat with a client timestamp other than the second run's was applied
C15_Witness ==
    \E h \in Handlers :
        /\ rpc[h].pc = "hb_read"
        /\ rpc[h].heartbeat_count > 0
        /\ rpc[h].client_ms # ClientTimeOfSecondRun

\* C18: the last_seen_ms of a registered entry never decreases, in any
\* interleaving of registrations and heartbeat streams.
C18_LastSeenNeverDecreases ==
    [][ \A n \in DOMAIN nodes :
          n \in DOMAIN nodes' =>
              nodes'[n].last_seen_ms >= nodes[n].last_seen_ms ]_vars

\* C20: a step that takes an entry from READY to another status is the sweep
\* of the monitor thread; RegisterNode and StreamHeartbeats write READY only.
C20_OnlySweepLeavesReady ==
    [][ /\ (/\ nodes' # nodes
            /\ \E n \in DOMAIN nodes :
                  /\ nodes[n].status = READY
                  /\ n \in DOMAIN nodes' => nodes'[n].status # READY)
            => (mon.pc = "sweep" /\ mon'.pc = "sleep" /\ rpc' = rpc)
        /\ \A h \in Handlers :
              /\ (rpc[h].pc = "reg_upsert" /\ RegisterNode_upsert(h)) =>
                    nodes'[rpc[h].name].status = READY
              /\ (/\ rpc[h].pc = "hb_touch"
                  /\ exists(nodes, rpc[h].name)
                  /\ StreamHeartbeats_touch(h)) =>
                    nodes'[rpc[h].name].status = READY ]_vars

\* the monitor has just swept and an entry is no longer READY
C20_Witness ==
    /\ mon.pc = "sleep"
    /\ \E n \in DOMAIN nodes : nodes[n].status = SUSPECT

\* the largest timestamp a toucher submits
MaxTouchTime ==
    CHOOSE x \in {TouchTime(t) : t \in Touchers} :
        \A t \in Touchers : TouchTime(t) <= x

InCriticalSection(t) == thr[t].pc \notin {"unborn", "start", "done"}

\* C16: once all the concurrent touch calls on the one registered name have
\* returned (and no sweep has run), the entry's last_seen_ms is the largest
\* timestamp submitted and its status is READY.
C16_TouchesConvergeToMax ==
    ((\A t \in Touchers : thr[t].pc = "done") /\ thr[Sweeper].pc = "start") =>
        /\ nodes[TouchedName].last_seen_ms = MaxTouchTime
        /\ nodes[TouchedName].status = READY

\* C19: at most one thread is inside a registry method; when a method reaches
\* the end of its critical section the map is what the whole method makes of
\* the map it found on taking the lock; the snapshot holds each entry of that
\* map once, as it then was (never a new last_seen_ms with an old status); and
\* the sweep has visited exactly the entries of that map, each once.
C19_MethodsAreAtomic ==
    /\ Cardinality({t \in ConcThreads : InCriticalSection(t)}) <= 1
    /\ \A t \in ConcThreads :
          thr[t].pc = "unlock" => nodes = Sequentially(t, thr[t].view)
    /\ thr[Reader].pc \in {"unlock", "done"} =>
          thr[Reader].out \in snapshot(thr[Reader].view)
    /\ thr[Sweeper].pc \in {"unlock", "done"} =>
          thr[Sweeper].done = DOMAIN thr[Sweeper].view

\* every thread has returned; the snapshot was taken when both entries were
\* there and one had been touched, and the sweep visited both
C19_Witness ==
    /\ \A t \in ConcThreads : thr[t].pc = "done"
    /\ Len(thr[Reader].out) = 2
    /\ \E i \in DOMAIN thr[Reader].out :
          /\ thr[Reader].out[i].name = TouchedName
          /\ thr[Reader].out[i].last_seen_ms = TouchTime(1)
          /\ thr[Reader].out[i].status = READY
    /\ thr[Sweeper].done = Names

\* C17: an agent whose RegisterNode call failed at transport level or came
\* back with accepted = false has no heartbeat thread and no stream, has sent
\* no heartbeat, and once it has exited its exit code is 1; and a stream or a
\* heartbeat thread exists only after an accepted registration.
C17_HeartbeatsOnlyAfterAcceptedRegistration ==
    /\ (agent.called /\ ~(agent.status_ok /\ agent.accepted)) =>
          /\ agent.hb = "none"
          /\ agent.stream = "none"
          /\ agent.heartbeat_count = 0
          /\ agent.main \in {"branch", "exited"}
          /\ agent.main = "exited" => agent.exit_code = 1
    /\ (agent.hb # "none" \/ agent.stream # "none" \/ agent.heartbeat_count > 0)
          => (agent.called /\ agent.status_ok /\ agent.accepted)

\* the call got through but the coordinator rejected the node, and the agent
\* has exited
C17_Witness ==
    /\ agent.called /\ agent.status_ok /\ ~agent.accepted
    /\ agent.main = "exited"
    /\ agent.exit_code = 1

\* how long the entry has been silent at the now the monitor read for its sweep
SilentFor(n) == mon.now - nodes[n].last_seen_ms

\* C26: at a sweep of the monitor an entry silent for more than 3000 ms and at
\* most 10000 ms becomes SUSPECT, an entry silent for more than 10000 ms
\* becomes NOT_READY, an entry silent for at most 3000 ms keeps its status, and
\* no field but the status changes.
C26_CoordinatorSweepThresholds ==
    [][ (mon.pc = "sweep" /\ Monitor_sweep) =>
          /\ DOMAIN nodes' = DOMAIN nodes
          /\ \A n \in DOMAIN nodes :
                /\ (SilentFor(n) > 3000 /\ SilentFor(n) <= 10000) =>
                      nodes'[n].status = SUSPECT
                /\ SilentFor(n) > 10000 => nodes'[n].status = NOT_READY
                /\ SilentFor(n) <= 3000 => nodes'[n].status = nodes[n].status
                /\ [nodes'[n] EXCEPT !.status = nodes[n].status] = nodes[n] ]_vars

\* an entry that was registered READY and that an earlier sweep made SUSPECT is
\* about to be swept again, now silent for more than 10000 ms
C26_Witness ==
    /\ mon.pc = "sweep"
    /\ \E n \in DOMAIN nodes :
          /\ nodes[n].status = SUSPECT
          /\ SilentFor(n) > 10000

\* C27: in the coordinator every entry has a non-empty name equal to its key
\* and a status among READY, NOT_READY and SUSPECT, and no step takes a name
\* out of the registry.
C27_CoordinatorEntriesWellFormed ==
    /\ [](\A n \in DOMAIN nodes :
            /\ n # ""
            /\ nodes[n].name = n
            /\ nodes[n].status \in {READY, NOT_READY, SUSPECT})
    /\ [][DOMAIN nodes \subseteq DOMAIN nodes']_vars

\* two names registered, the monitor has swept: one entry demoted, one READY
C27_Witness ==
    /\ mon.pc = "sleep"
    /\ Cardinality(DOMAIN nodes) = 2
    /\ \E n \in DOMAIN nodes : nodes[n].status = NOT_READY
    /\ \E n \in DOMAIN nodes : nodes[n].status = READY

HeartbeatLoopLeft == agent.hb \in {"writes_done", "finish", "returned"}

\* C22: once a Write has failed the loop is left for good: the count of
\* heartbeats sent never changes again, and the thread closes the stream and
\* returns.
C22_FailedWriteEndsSession ==
    /\ [](agent.write_failed => HeartbeatLoopLeft)
    /\ [][agent.write_failed =>
            /\ agent'.heartbeat_count = agent.heartbeat_count
            /\ agent'.write_failed]_vars
    /\ (agent.write_failed ~> (agent.hb = "returned" /\ agent.stream = "finished"))

\* a Write failed after one heartbeat had been sent, no signal came, and the
\* thread has closed the stream and returned
C22_Witness ==
    /\ agent.write_failed
    /\ agent.heartbeat_count = 1
    /\ agent.g_running
    /\ agent.hb = "returned"
    /\ agent.stream = "finished"

\* C23: after the handler has cleared the flag the loop sends at most the
\* heartbeat whose iteration had already passed the loop condition, starts no
\* iteration, and closes the stream and returns; while the flag is set the
\* loop condition lets every iteration start, and a Write that succeeds counts
\* one heartbeat.
C23_LoopStopsOnSignal ==
    /\ [](~agent.g_running =>
            agent.heartbeat_count <=
                agent.count_at_signal
                + (IF agent.hb_at_signal = "write" THEN 1 ELSE 0))
    /\ [][ /\ (agent.hb = "loop" /\ StartHeartbeats_loop) =>
                agent'.hb = (IF agent.g_running THEN "write" ELSE "writes_done")
           /\ (agent.hb = "write" /\ StartHeartbeats_write(TRUE)) =>
                /\ agent'.heartbeat_count = agent.heartbeat_count + 1
                /\ agent'.hb = "sleep" ]_vars
    /\ ((~agent.g_running /\ agent.hb # "none")
            ~> (agent.hb = "returned" /\ agent.stream = "finished"))

\* the signal came while a send was under way: that heartbeat was sent, no
\* other followed, no Write failed, and the stream was finished
C23_Witness ==
    /\ agent.sig # "none"
    /\ agent.hb_at_signal = "write"
    /\ agent.heartbeat_count = agent.count_at_signal + 1
    /\ ~agent.write_failed
    /\ agent.hb = "returned"
    /\ agent.stream = "finished"

\* C24: a registered agent to which the signal has been delivered exits in
\* the end.
C24_SignalledAgentTerminates ==
    (agent.registered /\ agent.sig # "none") ~> (agent.main = "exited")

\* C25: the main thread is past its wait, or has returned 0, only with the
\* flag cleared; a heartbeat thread that has returned while the flag is set
\* leaves the main thread in its wait; and a heartbeat thread that has
\* returned sends nothing more.
C25_ExitOnlyAfterSignal ==
    /\ []((agent.main = "join" \/ (agent.main = "exited" /\ agent.exit_code = 0))
            => ~agent.g_running)
    /\ []((agent.hb = "returned" /\ agent.g_running)
            => agent.main \in {"wait", "cv_wait", "blocked"})
    /\ [][agent.hb = "returned" =>
            /\ agent'.hb = "returned"
            /\ agent'.heartbeat_count = agent.heartbeat_count]_vars

\* a Write failed, the heartbeat thread has returned, no signal has come and
\* the main thread is blocked on the condition variable
C25_Witness ==
    /\ agent.write_failed
    /\ agent.hb = "returned"
    /\ agent.g_running
    /\ agent.main = "blocked"

\* the name is registered and has been silent for longer than the monitor's
\* timeout
Overdue(n) ==
    /\ n \in DOMAIN nodes
    /\ clock - nodes[n].last_seen_ms > HEARTBEAT_TIMEOUT_MS

\* a handler is at the upsert or the touch for this name
ContactPending(n) ==
    \E h \in Handlers :
        rpc[h].name = n /\ rpc[h].pc \in {"reg_upsert", "hb_touch"}

\* C21: while the monitor runs, an entry that is overdue is in the end no
\* longer READY (or no longer overdue, after a new contact); a sweep whose
\* clock reading finds the entry overdue leaves it non-READY, so an overdue
\* entry survives as READY at most the sweep whose reading was made before it
\* became overdue; and an entry that is not READY becomes READY again only by
\* the upsert or touch of a handler for its name.
C21_SilentNodeDemoted ==
    /\ \A n \in Names :
          Overdue(n)
              ~> (~g_running \/ ~Overdue(n) \/ nodes[n].status # READY)
    /\ [][ /\ (mon.pc = "sweep" /\ Monitor_sweep) =>
                \A n \in DOMAIN nodes :
                    SilentFor(n) > HEARTBEAT_TIMEOUT_MS =>
                        nodes'[n].status # READY
           /\ \A n \in DOMAIN nodes :
                (nodes[n].status # READY /\ nodes'[n].status = READY) =>
                    (ContactPending(n) /\ rpc' # rpc) ]_vars

\* an overdue entry that the monitor has demoted, with no contact pending
C21_Witness ==
    /\ g_running
    /\ mon.pc = "sleep"
    /\ \E n \in DOMAIN nodes :
          /\ Overdue(n)
          /\ nodes[n].status # READY
          /\ ~ContactPending(n)

TypeOK ==
    /\ DOMAIN nodes \subseteq Names
    /\ \A n \in DOMAIN nodes : nodes[n] \in NodeState /\ nodes[n].name = n

====
